---- MODULE Spec2Model ----
(***************************************************************************)
(* text-range-utils (src/src/index.ts, revision at lines 162-360): text    *)
(* nodes of a DOM tree are located under a Range / Selection, wrapped in   *)
(* clones of a wrapper element and unwrapped again by the returned         *)
(* closures.  The DOM operations the code calls (TreeWalker, Range,        *)
(* insertBefore, removeChild, closest) are written out as the DOM standard *)
(* defines them, live-range bookkeeping included.                          *)
(***************************************************************************)
EXTENDS Integers, Sequences, FiniteSets, TLC

VARIABLES
    nodes,      \* the node store: node identity -> type, tag, data, children, parent
    undos,      \* the unwrap closures returned so far, with what they captured
    last,       \* the last call: operation, arguments, store before it, outcome
    regex       \* the caller's RegExp object: source, global flag, lastIndex

vars == <<nodes, undos, last, regex>>

(* ------------------------------ bounds -------------------------------- *)
MaxNodes == 15         \* size of the node store (7 initial nodes + 2 wraps of 4 nodes)
MaxUndos == 2          \* unwrap closures a caller holds
MaxCalls == 2          \* invocations of one returned unwrap closure
MaxWraps == 1          \* range or selection wraps in one behaviour
MaxFinds == 2          \* getRangesOfText calls with one RegExp object

(* ------------------------------ values -------------------------------- *)
Null == 0              \* null / no node
Undef == -1            \* an option left undefined
NoErr == "ok"

(* A node of the store: Text has data, Element has tag and children.      *)
TextNode(data, parent) ==
    [type |-> "text", tag |-> "#text", data |-> data, kids |-> <<>>, parent |-> parent]

ElemNode(tag, kids, parent) ==
    [type |-> "elem", tag |-> tag, data |-> <<>>, kids |-> kids, parent |-> parent]

(* A DOM: the node store n (index = node identity), the live ranges r and *)
(* the exception err thrown so far ("ok" = none).                         *)
Dom(n, r) == [n |-> n, r |-> r, err |-> NoErr]

Throw(d, e) == [d EXCEPT !.err = e]

(* the one element of a singleton set: Only({e : x \in {v}}) is e with x  *)
(* bound to the value of v                                                *)
Only(S) == CHOOSE x \in S : TRUE

IndexIn(s, x) == CHOOSE i \in 1..Len(s) : s[i] = x

(* DOM "index" of a child (0-based).                                      *)
Index(n, x) == IndexIn(n[n[x].parent].kids, x) - 1

(* DOM "length" of a node.                                                *)
NodeLength(n, x) == IF n[x].type = "text" THEN Len(n[x].data) ELSE Len(n[x].kids)

RECURSIVE RootOf(_, _)
RootOf(n, x) == Only({IF p = Null THEN x ELSE RootOf(n, p) : p \in {n[x].parent}})

RECURSIVE IsInclusiveAncestor(_, _, _)
(* a is x or an ancestor of x                                             *)
IsInclusiveAncestor(n, a, x) ==
    IF a = x THEN TRUE
    ELSE Only({IF p = Null THEN FALSE ELSE IsInclusiveAncestor(n, a, p) : p \in {n[x].parent}})

RECURSIVE Path(_, _)
(* child indexes from the root down to x                                  *)
Path(n, x) ==
    Only({IF p = Null THEN <<>> ELSE Append(Path(n, p), Index(n, x)) : p \in {n[x].parent}})

RECURSIVE SeqLess(_, _)
(* tree order on paths: a proper prefix comes first, then lexicographic   *)
SeqLess(p, q) ==
    IF q = <<>> THEN FALSE
    ELSE IF p = <<>> THEN TRUE
    ELSE IF Head(p) # Head(q) THEN Head(p) < Head(q)
    ELSE Only({SeqLess(tp, tq) : tp \in {Tail(p)}, tq \in {Tail(q)}})

(* x precedes y in tree order (pre-order, depth-first)                    *)
Precedes(n, x, y) == Only({SeqLess(p, q) : p \in {Path(n, x)}, q \in {Path(n, y)}})

RECURSIVE ChildToward(_, _, _)
(* the child of a that is an inclusive ancestor of x (a a proper ancestor) *)
ChildToward(n, a, x) ==
    Only({IF p = a THEN x ELSE ChildToward(n, a, p) : p \in {n[x].parent}})

(* (nA,oA) is after (nB,oB), nA not following nB in tree order             *)
AfterFromAbove(n, nA, oA, nB, oB) ==
    IF nA = nB THEN oA > oB
    ELSE IsInclusiveAncestor(n, nA, nB) /\ Index(n, ChildToward(n, nA, nB)) < oA

(* DOM "position of boundary point (nA,oA) relative to (nB,oB)":          *)
(* -1 before, 0 equal, 1 after.                                           *)
Position(n, nA, oA, nB, oB) ==
    IF nA = nB THEN (IF oA = oB THEN 0 ELSE IF oA < oB THEN -1 ELSE 1)
    ELSE IF Precedes(n, nB, nA)
         THEN (IF AfterFromAbove(n, nB, oB, nA, oA) THEN -1 ELSE 1)
    ELSE IF AfterFromAbove(n, nA, oA, nB, oB) THEN 1
    ELSE -1

(* ------------------- DOM mutations with live ranges ------------------- *)
(* Every operator binds the DOM it is given once (d \in {dd}), so that a  *)
(* chain of mutations is evaluated step by step.                          *)

(* a live range from its two boundary points <<node, offset>>             *)
MkRange(s, e) == [sc |-> s[1], so |-> s[2], ec |-> e[1], eo |-> e[2]]

(* CharacterData "replace data"                                           *)
ReplaceData(dd, node, offset, count, data) ==
    Only({
        LET old == d.n[node].data
            Fix(c, o) == IF c = node /\ o > offset /\ o <= offset + count THEN <<c, offset>>
                         ELSE IF c = node /\ o > offset + count
                              THEN <<c, o + Len(data) - count>>
                         ELSE <<c, o>>
        IN  [d EXCEPT !.n[node].data =
                          SubSeq(old, 1, offset) \o data \o SubSeq(old, offset + count + 1, Len(old)),
                      !.r = SubSeq([i \in DOMAIN d.r |->
                                      MkRange(Fix(d.r[i].sc, d.r[i].so), Fix(d.r[i].ec, d.r[i].eo))],
                                   1, Len(d.r))]
        : d \in {dd}})

(* "remove" a node from its parent                                        *)
Remove(dd, node) ==
    Only({
        LET Fix(c, o) == IF IsInclusiveAncestor(d.n, node, c) THEN <<parent, index>>
                         ELSE IF c = parent /\ o > index THEN <<c, o - 1>>
                         ELSE <<c, o>>
        IN  [d EXCEPT !.n[parent].kids = SubSeq(@, 1, index) \o SubSeq(@, index + 2, Len(@)),
                      !.n[node].parent = Null,
                      !.r = SubSeq([i \in DOMAIN d.r |->
                                      MkRange(Fix(d.r[i].sc, d.r[i].so), Fix(d.r[i].ec, d.r[i].eo))],
                                   1, Len(d.r))]
        : d \in {dd}, parent \in {dd.n[node].parent}, index \in {Index(dd.n, node)}})

(* "insert", the live ranges: offsets in parent behind child move up      *)
InsertFix(dd, parent, child) ==
    IF child = Null THEN dd
    ELSE Only({
        LET Fix(c, o) == IF c = parent /\ o > idx THEN <<c, o + 1>> ELSE <<c, o>>
        IN  [d EXCEPT !.r = SubSeq([i \in DOMAIN d.r |->
                                      MkRange(Fix(d.r[i].sc, d.r[i].so), Fix(d.r[i].ec, d.r[i].eo))],
                                   1, Len(d.r))]
        : d \in {dd}, idx \in {Index(dd.n, child)}})

(* "insert", adoption: the node leaves the parent it has                  *)
Detach(dd, node) == IF dd.n[node].parent # Null THEN Remove(dd, node) ELSE dd

(* "insert", the children: node goes before child, or last                *)
Place(dd, node, parent, child) ==
    Only({[d EXCEPT !.n[parent].kids = SubSeq(@, 1, idx) \o <<node>> \o SubSeq(@, idx + 1, Len(@)),
                    !.n[node].parent = parent]
          : d \in {dd},
            idx \in {IF child = Null THEN Len(dd.n[parent].kids) ELSE Index(dd.n, child)}})

(* "insert" node into parent before child (Null = append)                 *)
Insert(dd, node, parent, child) ==
    Only({Place(d, node, parent, child) : d \in {Detach(InsertFix(dd, parent, child), node)}})

NextSibling(n, x) ==
    Only({IF i < Len(kids) THEN kids[i + 1] ELSE Null
          : kids \in {n[n[x].parent].kids}, i \in {IndexIn(n[n[x].parent].kids, x)}})

(* "pre-insert": Node.insertBefore(node, child)                           *)
PreInsert(dd, node, parent, child) ==
    Only({IF IsInclusiveAncestor(d.n, node, parent) THEN Throw(d, "HierarchyRequestError")
          ELSE Insert(d, node, parent, ref)
          : d \in {dd}, ref \in {IF child = node THEN NextSibling(dd.n, node) ELSE child}})

(* Text "split", the live ranges: what lies behind offset moves to new    *)
SplitFix(dd, node, offset, new, parent) ==
    Only({
        LET Fix(c, o) == IF c = node /\ o > offset THEN <<new, o - offset>>
                         ELSE IF c = parent /\ o = index + 1 THEN <<c, o + 1>>
                         ELSE <<c, o>>
        IN  [d EXCEPT !.r = SubSeq([i \in DOMAIN d.r |->
                                      MkRange(Fix(d.r[i].sc, d.r[i].so), Fix(d.r[i].ec, d.r[i].eo))],
                                   1, Len(d.r))]
        : d \in {dd}, index \in {Index(dd.n, node)}})

(* Text "split" at offset; the new node is Len(d.n) + 1                    *)
SplitText(dd, node, offset) ==
    Only({
        LET inserted == IF parent = Null THEN d1
                        ELSE SplitFix(Insert(d1, new, parent, NextSibling(d.n, node)),
                                      node, offset, new, parent)
        IN  ReplaceData(inserted, node, offset, Len(d.n[node].data) - offset, <<>>)
        : d \in {dd}, new \in {Len(dd.n) + 1}, parent \in {dd.n[node].parent},
          d1 \in {[dd EXCEPT !.n = Append(@, TextNode(SubSeq(dd.n[node].data, offset + 1,
                                                             Len(dd.n[node].data)), Null))]}})

(* Range.setStart(node, offset) on live range number i                    *)
SetStart(dd, i, node, offset) ==
    Only({
        IF offset < 0 \/ offset > NodeLength(d.n, node) THEN Throw(d, "IndexSizeError")
        ELSE IF RootOf(d.n, rg.ec) # RootOf(d.n, node)
                  \/ Position(d.n, node, offset, rg.ec, rg.eo) = 1
             THEN [d EXCEPT !.r[i] = [sc |-> node, so |-> offset, ec |-> node, eo |-> offset]]
             ELSE [d EXCEPT !.r[i] = [sc |-> node, so |-> offset, ec |-> rg.ec, eo |-> rg.eo]]
        : d \in {dd}, rg \in {dd.r[i]}})

(* a setEnd that takes an offset past the length for the length          *)
SetEndClamped(dd, i, node, offset) ==
    Only({
        IF offset < 0 THEN Throw(d, "IndexSizeError")
        ELSE IF RootOf(d.n, rg.sc) # RootOf(d.n, node)
                  \/ Position(d.n, node, o, rg.sc, rg.so) = -1
             THEN [d EXCEPT !.r[i] = [sc |-> node, so |-> o, ec |-> node, eo |-> o]]
             ELSE [d EXCEPT !.r[i] = [sc |-> rg.sc, so |-> rg.so, ec |-> node, eo |-> o]]
        : d \in {dd}, rg \in {dd.r[i]},
          o \in {IF offset > NodeLength(dd.n, node) THEN NodeLength(dd.n, node) ELSE offset}})

(* Range.setEnd(node, offset) on live range number i                      *)
SetEnd(dd, i, node, offset) ==
    Only({
        IF offset < 0 \/ offset > NodeLength(d.n, node) THEN Throw(d, "IndexSizeError")
        ELSE IF RootOf(d.n, rg.sc) # RootOf(d.n, node)
                  \/ Position(d.n, node, offset, rg.sc, rg.so) = -1
             THEN [d EXCEPT !.r[i] = [sc |-> node, so |-> offset, ec |-> node, eo |-> offset]]
             ELSE [d EXCEPT !.r[i] = [sc |-> rg.sc, so |-> rg.so, ec |-> node, eo |-> offset]]
        : d \in {dd}, rg \in {dd.r[i]}})

RECURSIVE RemoveAll(_, _)
(* "replace all with null within" p: every child is removed               *)
RemoveAll(dd, p) ==
    Only({IF d.n[p].kids = <<>> THEN d ELSE RemoveAll(Remove(d, Head(d.n[p].kids)), p)
          : d \in {dd}})

(* surroundContents, "extract": the range lies in one Text node.  A      *)
(* collapsed range gives the empty fragment and changes nothing; else a   *)
(* clone (node Len(d.n) + 1) takes the slice and the node loses it        *)
Extract(dd, i) ==
    Only({IF rg.so = rg.eo THEN d
          ELSE ReplaceData([d EXCEPT !.n = Append(@, TextNode(SubSeq(d.n[rg.sc].data,
                                                                     rg.so + 1, rg.eo), Null))],
                           rg.sc, rg.so, rg.eo - rg.so, <<>>)
          : d \in {dd}, rg \in {dd.r[i]}})

(* surroundContents, "insert newParent into the range": the Text node at  *)
(* the range start is split at the start offset, whatever that is, and    *)
(* newParent goes before the new node; a collapsed range ends behind it   *)
InsertIntoRange(dd, i, newParent) ==
    Only({
        IF parent = Null THEN Throw(d, "HierarchyRequestError")
        ELSE Only({
                 Only({IF d5.r[i].sc = d5.r[i].ec /\ d5.r[i].so = d5.r[i].eo
                       THEN [d5 EXCEPT !.r[i].ec = parent, !.r[i].eo = newOffset]
                       ELSE d5
                       : d5 \in {Insert(d4, newParent, parent, reference)}})
                 : d4 \in {SplitText(d, rg.sc, rg.so)}, newOffset \in {Index(d.n, rg.sc) + 2}})
        : d \in {dd}, rg \in {dd.r[i]}, parent \in {dd.n[dd.r[i].sc].parent},
          reference \in {Len(dd.n) + 1}})

(* surroundContents, "select newParent"                                   *)
SelectNode(dd, i, node) ==
    Only({[d EXCEPT !.r[i] = [sc |-> parent, so |-> index, ec |-> parent, eo |-> index + 1]]
          : d \in {dd}, parent \in {dd.n[node].parent}, index \in {Index(dd.n, node)}})

(* a surroundContents that appends newParent to the parent instead of     *)
(* inserting it at the range                                              *)
SurroundContentsAppend(dd, i, newParent) ==
    Only({
        Only({IF collapsed THEN d6 ELSE Insert(d6, clone, newParent, Null)
              : d6 \in {Insert(SplitText(RemoveAll(Extract(d, i), newParent), node, d.r[i].so),
                               newParent, d.n[node].parent, Null)}})
        : d \in {dd}, node \in {dd.r[i].sc}, clone \in {Len(dd.n) + 1},
          collapsed \in {dd.r[i].so = dd.r[i].eo}})

(* Range.surroundContents(newParent) for live range i whose two boundary  *)
(* points lie in one Text node: extract, empty newParent, insert it into  *)
(* the range, append the fragment (the clone) to it, select it.           *)
SurroundContents(dd, i, newParent) ==
    Only({
        IF d4.err # NoErr THEN d4
        ELSE SelectNode(IF collapsed THEN d4 ELSE Insert(d4, clone, newParent, Null),
                        i, newParent)
        : clone \in {Len(dd.n) + 1}, collapsed \in {dd.r[i].so = dd.r[i].eo},
          d4 \in {InsertIntoRange(RemoveAll(Extract(dd, i), newParent), i, newParent)}})

(* ----------------------------- the wrapper ---------------------------- *)

(* The caller's wrapper element: <span class="wrapper">, here with one    *)
(* text child of its own so that the deep clone has something to lose.    *)
WrapperTag == "span"
WrapperKids == << <<"x">> >>

RECURSIVE CloneKids(_, _, _)
CloneKids(nn, parent, datas) ==
    IF datas = <<>> THEN nn
    ELSE Only({CloneKids([n EXCEPT ![parent].kids = Append(@, Len(n))], parent, Tail(datas))
               : n \in {Append(nn, TextNode(Head(datas), parent))}})

(* wrapperElement.cloneNode(true); the clone is node Len(d.n) + 1          *)
CloneNode(dd) ==
    Only({[d EXCEPT !.n = CloneKids(Append(d.n, ElemNode(WrapperTag, <<>>, Null)),
                                    Len(d.n) + 1, WrapperKids)]
          : d \in {dd}})

(* lines 266-273 with setStart left out                                   *)
selectPortionNoStart(dd, i, node, startOffset, endOffset) ==
    Only({IF endOffset # Undef THEN SetEnd(d0, i, node, endOffset) ELSE d0
          : d0 \in {[dd EXCEPT !.r[i] = [sc |-> node, so |-> 0,
                                         ec |-> node, eo |-> NodeLength(dd.n, node)]]}})

(* lines 266-273: selectNodeContents, then setStart / setEnd for the      *)
(* offsets that are not undefined, on live range number i                 *)
selectPortion(dd, i, node, startOffset, endOffset) ==
    Only({IF d1.err = NoErr /\ endOffset # Undef THEN SetEnd(d1, i, node, endOffset) ELSE d1
          : d1 \in {IF startOffset # Undef
                    THEN SetStart([dd EXCEPT !.r[i] = [sc |-> node, so |-> 0, ec |-> node,
                                                       eo |-> NodeLength(dd.n, node)]],
                                  i, node, startOffset)
                    ELSE [dd EXCEPT !.r[i] = [sc |-> node, so |-> 0, ec |-> node,
                                              eo |-> NodeLength(dd.n, node)]]}})

(* lines 275-277: the clone, surroundContents; the call's Range is gone   *)
(* when it returns.  w = the newParent the closure captures.              *)
surround(dd, i, keep) ==
    Only({
        IF d2.err # NoErr THEN [d |-> [d2 EXCEPT !.r = SubSeq(@, 1, keep)], w |-> Null]
        ELSE Only({[d |-> [d4 EXCEPT !.r = SubSeq(@, 1, keep)],
                    w |-> IF d4.err = NoErr THEN newParent ELSE Null]
                   : d4 \in {SurroundContents(CloneNode(d2), i, newParent)}})
        : d2 \in {dd}, newParent \in {Len(dd.n) + 1}})

(* lines 265-277 for a Text node: a fresh Range, the portion, the wrap    *)
wrapText(dd, node, startOffset, endOffset) ==
    Only({surround(selectPortion([d EXCEPT !.r = Append(@, MkRange(<<Null, 0>>, <<Null, 0>>))],
                                 Len(d.r) + 1, node, startOffset, endOffset),
                   Len(d.r) + 1, Len(d.r))
          : d \in {dd}})

(* as wrapTextNode was before 2.0.0 (lines 88-91): blank leaves skipped    *)
wrapTextNodeSkipBlank(d, node, startOffset, endOffset) ==
    IF d.n[node].type # "text" THEN [d |-> d, w |-> Null]
    ELSE IF \A k \in 1..Len(d.n[node].data) : d.n[node].data[k] = " " THEN [d |-> d, w |-> Null]
    ELSE wrapText(d, node, startOffset, endOffset)

(* wrapTextNode without its nodeType guard: the contents of an element    *)
(* are surrounded                                                         *)
wrapTextNodeNoGuard(d, node, startOffset, endOffset) ==
    IF d.n[node].type # "text"
    THEN Only({[d |-> [d EXCEPT !.n = SubSeq(
                          [x \in DOMAIN n1 |->
                             IF x = node THEN [n1[x] EXCEPT !.kids = <<newParent>>]
                             ELSE IF n1[x].parent = node /\ x # newParent
                                  THEN [n1[x] EXCEPT !.parent = newParent]
                             ELSE n1[x]], 1, Len(n1))],
                w |-> newParent]
               : newParent \in {Len(d.n) + 1},
                 n1 \in {Append(d.n, ElemNode(WrapperTag, d.n[node].kids, node))}})
    ELSE wrapText(d, node, startOffset, endOffset)

(* wrapTextNode(node, wrapperElement, {startOffset, endOffset}): the DOM  *)
(* after the call, plus w = the newParent its closure captured (Null for  *)
(* the inert closure of a non-text node).                                 *)
wrapTextNode(d, node, startOffset, endOffset) ==
    IF d.n[node].type # "text" THEN [d |-> d, w |-> Null]
    ELSE wrapText(d, node, startOffset, endOffset)

(* an unwrap without the test of newParent.parentNode                     *)
unwrapTextNodeUnguarded(d, newParent) ==
    IF newParent = Null THEN d
    ELSE IF d.n[newParent].parent = Null \/ d.n[newParent].kids = <<>> THEN Throw(d, "TypeError")
    ELSE Only({IF d1.err = NoErr THEN Remove(d1, newParent) ELSE d1
               : d1 \in {PreInsert(d, Head(d.n[newParent].kids), d.n[newParent].parent,
                                   newParent)}})

(* an unwrap that puts the wrapped node back as the parent's last child   *)
unwrapTextNodeLast(d, newParent) ==
    IF newParent = Null THEN d
    ELSE IF d.n[newParent].parent = Null THEN d
    ELSE IF d.n[newParent].kids = <<>> THEN Throw(d, "TypeError")
    ELSE Only({IF d1.err = NoErr THEN Remove(d1, newParent) ELSE d1
               : d1 \in {PreInsert(d, Head(d.n[newParent].kids), d.n[newParent].parent,
                                   Null)}})

(* an unwrap that forgets to put the wrapped node back                    *)
unwrapTextNodeDrop(d, newParent) ==
    IF newParent = Null THEN d
    ELSE IF d.n[newParent].parent = Null THEN d ELSE Remove(d, newParent)

(* unwrapTextNode, the closure over newParent                             *)
unwrapTextNode(d, newParent) ==
    IF newParent = Null THEN d
    ELSE IF d.n[newParent].parent = Null THEN d
    ELSE IF d.n[newParent].kids = <<>> THEN Throw(d, "TypeError")
    ELSE Only({IF d1.err = NoErr THEN Remove(d1, newParent) ELSE d1
               : d1 \in {PreInsert(d, Head(d.n[newParent].kids), d.n[newParent].parent,
                                   newParent)}})

RECURSIVE forEachUnwrap(_, _)
(* unwrapCallbacks.forEach((unwrap) => unwrap()); an exception ends it.   *)
(* log = the closures invoked so far, each as the newParent it captured   *)
forEachUnwrap(acc, ws) ==
    Only({IF ws = <<>> \/ a.d.err # NoErr THEN a
          ELSE forEachUnwrap([d |-> unwrapTextNode(a.d, Head(ws)),
                              log |-> Append(a.log, Head(ws))], Tail(ws))
          : a \in {acc}})

(* ------------------------------ the tree ------------------------------ *)

Root == 1

(* <div>abc<p><a></a>de</p> </div>: an empty leaf three containers deep   *)
(* and a whitespace-only leaf                                             *)
InitTree ==
    << ElemNode("div", <<2, 3, 7>>, Null),
       TextNode(<<"a", "b", "c">>, 1),
       ElemNode("p", <<4, 6>>, 1),
       ElemNode("a", <<5>>, 3),
       TextNode(<<>>, 4),
       TextNode(<<"d", "e">>, 3),
       TextNode(<<" ">>, 1) >>

Attached(n) == {x \in DOMAIN n : RootOf(n, x) = Root}

RECURSIVE Serialize(_, _)
RECURSIVE SerializeKids(_, _)
(* innerHTML-like serialization: tags and characters in document order    *)
Serialize(n, x) ==
    IF n[x].type = "text" THEN n[x].data
    ELSE <<"<" \o n[x].tag \o ">">> \o SerializeKids(n, n[x].kids) \o <<"</" \o n[x].tag \o ">">>

SerializeKids(n, kids) ==
    IF kids = <<>> THEN <<>> ELSE Serialize(n, Head(kids)) \o SerializeKids(n, Tail(kids))

RECURSIVE TextContent(_, _)
RECURSIVE TextContentKids(_, _)
(* Node.textContent: the characters in document order                     *)
TextContent(n, x) ==
    IF n[x].type = "text" THEN n[x].data ELSE TextContentKids(n, n[x].kids)

TextContentKids(n, kids) ==
    IF kids = <<>> THEN <<>> ELSE TextContent(n, Head(kids)) \o TextContentKids(n, Tail(kids))

(* ----------------------------- the locator --------------------------- *)

(* GetTextNodesOptions: options omitted (NoOptions), or an array of tags  *)
NoOptions == [defined |-> FALSE, tags |-> <<>>]
Options(tags) == [defined |-> TRUE, tags |-> tags]

(* tag.toLowerCase(), on the tag names in use                             *)
ToLowerCase(tag) ==
    CASE tag = "A" -> "a"
      [] tag = "P" -> "p"
      [] tag = "SPAN" -> "span"
      [] OTHER -> tag

RECURSIVE Closest(_, _, _)
(* Element.closest(selector) for a type selector: the nearest inclusive   *)
(* ancestor with that tag, up to the top of the document, or Null         *)
Closest(n, x, selector) ==
    IF x = Null THEN Null
    ELSE IF n[x].type = "elem" /\ n[x].tag = selector THEN x
    ELSE Only({Closest(n, p, selector) : p \in {n[x].parent}})

(* a filter that looks at the tag of the immediate parent only            *)
AcceptParentOnly(n, node, options) ==
    ~ /\ n[node].parent # Null
      /\ options.defined
      /\ \E k \in DOMAIN options.tags :
             n[n[node].parent].tag = ToLowerCase(options.tags[k])

(* the TreeWalker's filter (lines 197-208): TRUE = FILTER_ACCEPT          *)
Accept(n, node, options) ==
    ~ /\ n[node].parent # Null
      /\ options.defined
      /\ \E k \in DOMAIN options.tags :
             Closest(n, n[node].parent, ToLowerCase(options.tags[k])) # Null

RECURSIVE WalkNode(_, _, _)
RECURSIVE WalkKids(_, _, _)
(* walker.nextNode() until it is exhausted: the pre-order walk below x;   *)
(* SHOW_TEXT skips the elements and descends, the filter sees the leaves  *)
WalkNode(n, x, options) ==
    IF n[x].type = "text" THEN (IF Accept(n, x, options) THEN <<x>> ELSE <<>>)
    ELSE WalkKids(n, n[x].kids, options)

WalkKids(n, kids, options) ==
    IF kids = <<>> THEN <<>>
    ELSE WalkNode(n, Head(kids), options) \o WalkKids(n, Tail(kids), options)

(* a getTextNodes that runs the filter on a root that is a Text node      *)
getTextNodesFiltered(n, root, options) == WalkNode(n, root, options)

(* getTextNodes(root, options): a root that is a Text node is pushed as   *)
(* walker.currentNode, without the filter, and has nothing after it       *)
getTextNodes(n, root, options) ==
    IF n[root].type = "text" THEN <<root>> ELSE WalkKids(n, n[root].kids, options)

RECURSIVE CommonAncestorFrom(_, _, _)
CommonAncestorFrom(n, container, endNode) ==
    IF IsInclusiveAncestor(n, container, endNode) THEN container
    ELSE Only({CommonAncestorFrom(n, p, endNode) : p \in {n[container].parent}})

(* range.commonAncestorContainer                                          *)
CommonAncestorContainer(n, rg) == CommonAncestorFrom(n, rg.sc, rg.ec)

(* range.intersectsNode(node)                                             *)
(* an intersectsNode for which touching a text node is no intersection    *)
IntersectsNodeStrict(n, rg, node) ==
    IF RootOf(n, node) # RootOf(n, rg.sc) THEN FALSE
    ELSE IF n[node].parent = Null THEN TRUE
    ELSE Only({/\ Position(n, parent, offset, rg.ec, rg.eo) = -1
               /\ Position(n, parent, offset + 1, rg.sc, rg.so) = 1
               /\ ~(rg.ec = node /\ rg.eo = 0)
               /\ ~(rg.sc = node /\ rg.so = NodeLength(n, node))
               : parent \in {n[node].parent}, offset \in {Index(n, node)}})

(* Range.intersectsNode(node)                                             *)
IntersectsNode(n, rg, node) ==
    IF RootOf(n, node) # RootOf(n, rg.sc) THEN FALSE
    ELSE IF n[node].parent = Null THEN TRUE
    ELSE Only({/\ Position(n, parent, offset, rg.ec, rg.eo) = -1
               /\ Position(n, parent, offset + 1, rg.sc, rg.so) = 1
               : parent \in {n[node].parent}, offset \in {Index(n, node)}})

(* a getTextNodesInRange that leaves out the intersectsNode filter        *)
getTextNodesInRangeAll(n, rg, options) ==
    getTextNodes(n, CommonAncestorContainer(n, rg), options)

(* a getTextNodesInRange that keeps the text nodes the range contains    *)
getTextNodesInRangeContained(n, rg, options) ==
    Only({SelectSeq(all, LAMBDA node :
                /\ n[node].parent # Null
                /\ Position(n, n[node].parent, Index(n, node), rg.sc, rg.so) >= 0
                /\ Position(n, n[node].parent, Index(n, node) + 1, rg.ec, rg.eo) <= 0)
          : all \in {getTextNodes(n, CommonAncestorContainer(n, rg), options)}})

(* getTextNodesInRange(range, options)                                    *)
getTextNodesInRange(n, rg, options) ==
    Only({SelectSeq(all, LAMBDA node : IntersectsNode(n, rg, node))
          : all \in {getTextNodes(n, CommonAncestorContainer(n, rg), options)}})

RECURSIVE getRangeAtFrom(_, _, _, _)
(* the loop of lines 242-246 from range number i on                       *)
getRangeAtFrom(n, sel, i, options) ==
    IF i > Len(sel) THEN <<>>
    ELSE getTextNodesInRange(n, sel[i], options) \o getRangeAtFrom(n, sel, i + 1, options)

(* a getSelectedTextNodes that looks at the first range only              *)
getSelectedTextNodesFirst(n, sel, options) ==
    IF sel = <<>> THEN <<>> ELSE getTextNodesInRange(n, sel[1], options)

(* getSelectedTextNodes(selection, options); sel = the selection's ranges *)
getSelectedTextNodes(n, sel, options) == getRangeAtFrom(n, sel, 1, options)

(* ------------------------------ the finder ---------------------------- *)

(* the places (0-based) at or after start where source occurs in str      *)
MatchesFrom(str, source, start) ==
    {i \in start..(Len(str) - Len(source)) : SubSeq(str, i + 1, i + Len(source)) = source}

Min(S) == CHOOSE x \in S : \A y \in S : x <= y

(* regex.exec(str) for a pattern of literal characters: the search starts *)
(* at lastIndex when the pattern is global, at 0 otherwise; a global      *)
(* pattern keeps the end of the match in lastIndex, and 0 after a failure *)
(* index = Undef stands for the null result; re = the object afterwards   *)
exec(re, str) ==
    Only({
        IF ms = {}
        THEN [index |-> Undef, length |-> 0,
              re |-> IF re.global THEN [re EXCEPT !.lastIndex = 0] ELSE re]
        ELSE Only({[index |-> i, length |-> Len(re.source),
                    re |-> IF re.global THEN [re EXCEPT !.lastIndex = i + Len(re.source)]
                           ELSE re]
                   : i \in {Min(ms)}})
        : ms \in {MatchesFrom(str, re.source, IF re.global THEN re.lastIndex ELSE 0)}})

(* lines 353-355 with setEnd left out                                     *)
newRangeCollapsed(n, textNode, start, end) == MkRange(<<textNode, start>>, <<textNode, start>>)

(* lines 353-355: a new Range, which setStart moves whole into the text   *)
(* node, and setEnd                                                       *)
newRange(n, textNode, start, end) ==
    SetEnd(Dom(n, <<MkRange(<<textNode, start>>, <<textNode, start>>)>>), 1, textNode, end).r[1]

RECURSIVE forEachTextNode(_, _, _)
(* textNodes.forEach (lines 349-357): the same regex object probes leaf   *)
(* after leaf; ranges = the array so far, re = the object as it is then   *)
forEachTextNode(acc, n, textNodes) ==
    Only({
        IF textNodes = <<>> THEN a
        ELSE Only({forEachTextNode(
                       [ranges |-> IF match.index = Undef THEN a.ranges
                                   ELSE Append(a.ranges,
                                               newRange(n, textNode, match.index,
                                                        match.index + match.length)),
                        re |-> match.re],
                       n, Tail(textNodes))
                   : textNode \in {Head(textNodes)},
                     match \in {exec(a.re, TextContent(n, Head(textNodes)))}})
        : a \in {acc}})

(* a finder that probes the text of the whole subtree at once and puts    *)
(* the match's start into the leaf it falls in                            *)
getRangesOfTextJoined(n, root, re) ==
    Only({
        IF match.index = Undef \/ leaves = <<>> THEN [ranges |-> <<>>, re |-> match.re]
        ELSE [ranges |-> <<MkRange(<<leaves[1], 0>>, <<leaves[Len(leaves)], 0>>)>>,
              re |-> match.re]
        : match \in {exec(re, TextContent(n, root))},
          leaves \in {getTextNodes(n, root, NoOptions)}})

(* getRangesOfText(root, regex): the ranges, and the regex object after   *)
getRangesOfText(n, root, re) ==
    forEachTextNode([ranges |-> <<>>, re |-> re], n, getTextNodes(n, root, NoOptions))

(* ------------------------- wrapping a range --------------------------- *)

(* the shouldWrapNode callbacks in use: none, the test's                  *)
(* node.textContent !== "de", and one that refuses blank nodes            *)
shouldWrapNode(n, node, pred) ==
    CASE pred = "undefined" -> TRUE
      [] pred = "notDe" -> TextContent(n, node) # <<"d", "e">>
      [] pred = "notBlank" -> \E k \in DOMAIN n[node].data : n[node].data[k] # " "

RECURSIVE forEachNode(_, _, _, _)
(* selectedTextNodes.forEach (lines 302-311) on live range i: a rejected  *)
(* node is passed over; the offsets are read off the range as it is then; *)
(* ws = unwrapCallbacks, as the newParent of each closure                 *)
forEachNode(acc, i, selected, pred) ==
    Only({
        IF selected = <<>> \/ a.d.err # NoErr THEN a
        ELSE IF pred # "undefined" /\ ~shouldWrapNode(a.d.n, node, pred)
             THEN forEachNode(a, i, Tail(selected), pred)
        ELSE Only({forEachNode([d |-> out.d,
                                ws |-> IF out.d.err = NoErr THEN Append(a.ws, out.w) ELSE a.ws],
                               i, Tail(selected), pred)
                   : out \in {wrapTextNode(a.d, node,
                                           IF node = a.d.r[i].sc THEN a.d.r[i].so ELSE Undef,
                                           IF node = a.d.r[i].ec THEN a.d.r[i].eo ELSE Undef)}})
        : a \in {acc}, node \in {IF selected = <<>> THEN Null ELSE Head(selected)}})

(* wrapRangeTextNodes(range, wrapper, options) for live range i           *)
wrapRangeTextNodes(dd, i, options, pred) ==
    forEachNode([d |-> dd, ws |-> <<>>], i, getTextNodesInRange(dd.n, dd.r[i], options), pred)

RECURSIVE forEachRange(_, _, _, _)
(* the loop of lines 329-333 from rangeIndex i on; steps = the tree and   *)
(* the range each wrapRangeTextNodes call found, and what it made         *)
forEachRange(acc, i, options, pred) ==
    Only({
        IF i > Len(a.d.r) \/ a.d.err # NoErr THEN a
        ELSE Only({forEachRange([d |-> out.d, ws |-> a.ws \o out.ws,
                                 steps |-> Append(a.steps, [pre |-> a.d.n, range |-> a.d.r[i],
                                                            made |-> out.ws])],
                                i + 1, options, pred)
                   : out \in {wrapRangeTextNodes(a.d, i, options, pred)}})
        : a \in {acc}})

(* wrapSelectedTextNodes(selection, wrapper, options): the ranges of the  *)
(* selection are the live ranges of dd                                    *)
wrapSelectedTextNodes(dd, options, pred) ==
    forEachRange([d |-> dd, ws |-> <<>>, steps |-> <<>>], 1, options, pred)

(* ------------------------------ actions ------------------------------- *)

NoLast == [op |-> "init", node |-> Null, s |-> Undef, e |-> Undef, h |-> 0,
           err |-> NoErr, pre |-> <<>>, made |-> <<>>, direct |-> FALSE,
           range |-> MkRange(<<Null, 0>>, <<Null, 0>>), options |-> NoOptions,
           found |-> <<>>, pred |-> "undefined", steps |-> <<>>, ranges |-> <<>>,
           calls |-> 0, lastIndex |-> 0, prevNode |-> Null, prevFound |-> <<>>,
           invoked |-> <<>>]

(* the RegExp of a caller that searches nothing: new RegExp("")           *)
NoRegex == [source |-> <<>>, global |-> FALSE, lastIndex |-> 0]

Init ==
    /\ nodes = InitTree
    /\ undos = <<>>
    /\ last = NoLast
    /\ regex = NoRegex

(* the offsets a caller may pass: omitted, within the node, or one past   *)
(* its length                                                             *)
Offsets(n, x) ==
    IF n[x].type = "text" THEN {Undef} \cup (0..NodeLength(n, x) + 1) ELSE {Undef}

(* a caller wraps an attached node and keeps the returned closure         *)
WrapTextNode ==
    /\ Len(undos) < MaxUndos
    /\ UNCHANGED regex
    /\ \E node \in Attached(nodes) :
       \E s \in Offsets(nodes, node), e \in Offsets(nodes, node) :
       \E out \in {wrapTextNode(Dom(nodes, <<>>), node, s, e)} :
       LET returned == out.d.err = NoErr
       IN  /\ Len(out.d.n) <= MaxNodes
           /\ nodes' = out.d.n
           /\ undos' = IF returned
                       THEN Append(undos, [ws |-> <<out.w>>, calls |-> 0, node |-> node,
                                           before |-> Serialize(nodes, Root), pre |-> nodes,
                                           op |-> "wrapTextNode", ranges |-> 0])
                       ELSE undos
           /\ last' = [NoLast EXCEPT !.op = "wrapTextNode", !.node = node, !.s = s, !.e = e,
                                     !.h = IF returned THEN Len(undos) + 1 ELSE 0,
                                     !.err = out.d.err, !.pre = nodes,
                                     !.made = IF out.w = Null THEN <<>> ELSE <<out.w>>]

(* the caller invokes a closure it was given; direct = it is the first    *)
(* invocation and the call before it was the wrap that returned it        *)
Unwrap ==
    \E h \in DOMAIN undos :
       /\ undos[h].calls < MaxCalls
       /\ UNCHANGED regex
       /\ \E out \in {forEachUnwrap([d |-> Dom(nodes, <<>>), log |-> <<>>], undos[h].ws)} :
              /\ nodes' = out.d.n
              /\ undos' = [undos EXCEPT ![h].calls = @ + 1]
              /\ last' = [NoLast EXCEPT !.op = "unwrap", !.h = h, !.err = out.d.err,
                                        !.pre = nodes, !.invoked = out.log,
                                        !.node = undos[h].node,
                                        !.s = IF last.h = h THEN last.s ELSE Undef,
                                        !.e = IF last.h = h THEN last.e ELSE Undef,
                                        !.direct = (last.op # "unwrap" /\ last.h = h)]

Next == WrapTextNode \/ Unwrap

Spec == Init /\ [][Next]_vars

(* --------------------- the locator as a function ---------------------- *)

(* <p>t1<a><strong>2</strong>3</a></p>, the tree of the locator's tests   *)
TestTree ==
    << ElemNode("p", <<2, 3>>, Null),
       TextNode(<<"t", "1">>, 1),
       ElemNode("a", <<4, 6>>, 1),
       ElemNode("strong", <<5>>, 3),
       TextNode(<<"2">>, 4),
       TextNode(<<"3">>, 3) >>

(* the tree after "de" was wrapped whole: empty leaves around the wrapper *)
WrappedTree == wrapTextNode(Dom(InitTree, <<>>), 6, Undef, Undef).d.n

LocateTrees == {InitTree, TestTree, WrappedTree}

(* the boundary points of the attached nodes, and the ranges between them *)
Points(n) == UNION {{<<x, o>> : o \in 0..NodeLength(n, x)} : x \in Attached(n)}

Ranges(n) ==
    {rg \in {MkRange(s, e) : s \in Points(n), e \in Points(n)} :
        Position(n, rg.sc, rg.so, rg.ec, rg.eo) # 1}

OptionInputs ==
    {NoOptions, Options(<<>>), Options(<<"a">>), Options(<<"P">>), Options(<<"span", "strong">>)}

InitLocate ==
    /\ nodes \in LocateTrees
    /\ undos = <<>>
    /\ last = NoLast
    /\ regex = NoRegex

(* a caller asks for the text nodes of a range; the call changes nothing, *)
(* so one call on each tree shows all there is                            *)
GetTextNodesInRange ==
    /\ last.op = "init"
    /\ \E rg \in Ranges(nodes), options \in OptionInputs :
       /\ last' = [NoLast EXCEPT !.op = "getTextNodesInRange", !.range = rg, !.options = options,
                                 !.pre = nodes,
                                 !.found = getTextNodesInRange(nodes, rg, options)]
       /\ UNCHANGED <<nodes, undos, regex>>

(* the ranges of a selection a caller may pass: none, one, or two that    *)
(* may overlap; each from text to text or the contents of one element     *)
LocateSelections(n) ==
    Only({{<<>>} \cup {<<rg>> : rg \in rgs} \cup {<<r1, r2>> : r1 \in rgs, r2 \in rgs}
          : rgs \in {{rg \in Ranges(n) :
                        \/ n[rg.sc].type = "text" /\ n[rg.ec].type = "text"
                        \/ rg.sc = rg.ec /\ rg.so = 0 /\ rg.eo = NodeLength(n, rg.sc)}}})

(* a caller asks for the text nodes of a selection                        *)
GetSelectedTextNodes ==
    /\ last.op = "init"
    /\ \E sel \in LocateSelections(nodes), options \in {NoOptions, Options(<<"a">>)} :
       /\ last' = [NoLast EXCEPT !.op = "getSelectedTextNodes", !.ranges = sel,
                                 !.options = options, !.pre = nodes,
                                 !.found = getSelectedTextNodes(nodes, sel, options)]
       /\ UNCHANGED <<nodes, undos, regex>>

(* a caller asks for the text nodes under an attached node                *)
GetTextNodes ==
    /\ last.op = "init"
    /\ \E root \in Attached(nodes), options \in OptionInputs :
       /\ last' = [NoLast EXCEPT !.op = "getTextNodes", !.node = root, !.options = options,
                                 !.pre = nodes,
                                 !.found = getTextNodes(nodes, root, options)]
       /\ UNCHANGED <<nodes, undos, regex>>

NextLocate == GetTextNodesInRange \/ GetSelectedTextNodes \/ GetTextNodes

SpecLocate == InitLocate /\ [][NextLocate]_vars

(* ------------------------ ranges and selections ----------------------- *)

RangeOptions == {NoOptions, Options(<<"a">>), Options(<<"P">>)}

PredInputs == {"undefined", "notDe", "notBlank"}

(* what a user selects: from text to text, or the contents of an element  *)
SelectableRanges(n) ==
    {rg \in Ranges(n) :
        \/ n[rg.sc].type = "text" /\ n[rg.ec].type = "text"
        \/ rg.sc = rg.ec /\ rg.so = 0 /\ rg.eo = NodeLength(n, rg.sc)}

(* a selection: no range, one, or two in document order that do not       *)
(* overlap (they may touch)                                               *)
Selections(n) ==
    {<<>>} \cup {<<rg>> : rg \in SelectableRanges(n)}
           \cup {sel \in {<<r1, r2>> : r1 \in SelectableRanges(n), r2 \in SelectableRanges(n)} :
                    Position(n, sel[1].ec, sel[1].eo, sel[2].sc, sel[2].so) # 1}

(* what a wrapping call leaves behind: the tree, the undo it returned and *)
(* the record of the call                                                 *)
Returned(op, out, options, pred, steps) ==
    /\ UNCHANGED regex
    /\ nodes' = out.d.n
    /\ undos' = IF out.d.err = NoErr
                THEN Append(undos, [ws |-> out.ws, calls |-> 0, node |-> Null,
                                    before |-> Serialize(nodes, Root), pre |-> nodes,
                                    op |-> op, ranges |-> Len(steps)])
                ELSE undos
    /\ last' = [NoLast EXCEPT !.op = op, !.options = options, !.pred = pred,
                              !.h = IF out.d.err = NoErr THEN Len(undos) + 1 ELSE 0,
                              !.err = out.d.err, !.pre = nodes, !.made = out.ws,
                              !.steps = steps]

(* a caller wraps the text nodes of a range and keeps the undo            *)
WrapRangeTextNodes ==
    /\ Len(undos) < MaxWraps
    /\ \E rg \in Ranges(nodes), options \in RangeOptions, pred \in PredInputs :
       \E out \in {wrapRangeTextNodes(Dom(nodes, <<rg>>), 1, options, pred)} :
          Returned("wrapRangeTextNodes", out, options, pred,
                   <<[pre |-> nodes, range |-> rg, made |-> out.ws]>>)

(* a caller wraps the text nodes of a selection and keeps the undo        *)
WrapSelectedTextNodes ==
    /\ Len(undos) < MaxWraps
    /\ \E sel \in Selections(nodes), options \in RangeOptions, pred \in PredInputs :
       \E out \in {wrapSelectedTextNodes(Dom(nodes, sel), options, pred)} :
          Returned("wrapSelectedTextNodes", out, options, pred, out.steps)

NextRange == WrapRangeTextNodes \/ WrapSelectedTextNodes \/ Unwrap

SpecRange == Init /\ [][NextRange]_vars

(* --------------------------- finding text ----------------------------- *)

(* <p>aa b aa</p> in three text nodes, the tree of the finder's test      *)
CrossTree ==
    << ElemNode("p", <<2, 3, 4>>, Null),
       TextNode(<<"a", "a">>, 1),
       TextNode(<<"b">>, 1),
       TextNode(<<"a", "a">>, 1) >>

(* <div>ab<p>bab</p>aab a</div>, "aab" and "a" being two text nodes       *)
RepeatTree ==
    << ElemNode("div", <<2, 3, 5, 6>>, Null),
       TextNode(<<"a", "b">>, 1),
       ElemNode("p", <<4>>, 1),
       TextNode(<<"b", "a", "b">>, 3),
       TextNode(<<"a", "a", "b">>, 1),
       TextNode(<<"a">>, 1) >>

FindTrees == {CrossTree, RepeatTree, InitTree}

(* literal patterns, with and without the g flag, fresh: lastIndex = 0    *)
RegexInputs ==
    {[source |-> src, global |-> g, lastIndex |-> 0]
     : src \in {<<"a", "b">>, <<"a", "b", "a">>, <<"b">>, <<"z">>, <<>>}, g \in BOOLEAN}

InitFind ==
    /\ nodes \in FindTrees
    /\ undos = <<>>
    /\ last = NoLast
    /\ regex \in RegexInputs

(* a caller searches below a node with the RegExp object it holds         *)
GetRangesOfText ==
    /\ last.calls < MaxFinds
    /\ \E root \in Attached(nodes) :
       \E out \in {getRangesOfText(nodes, root, regex)} :
          /\ regex' = out.re
          /\ last' = [NoLast EXCEPT !.op = "getRangesOfText", !.node = root, !.pre = nodes,
                                    !.found = out.ranges, !.calls = last.calls + 1,
                                    !.lastIndex = regex.lastIndex,
                                    !.prevNode = last.node, !.prevFound = last.found]
          /\ UNCHANGED <<nodes, undos>>

NextFind == GetRangesOfText

SpecFind == InitFind /\ [][NextFind]_vars

(* ------------------- wrapTextNode and its closure --------------------- *)

Pre == last.pre

(* the last call was wrapTextNode on a Text node                          *)
CalledOnText == last.op = "wrapTextNode" /\ Pre[last.node].type = "text"

(* ... and it returned                                                    *)
WrappedText == CalledOnText /\ last.err = NoErr

PreData == Pre[last.node].data
PreParent == Pre[last.node].parent
PreKids == Pre[PreParent].kids
PrePos == IndexIn(PreKids, last.node)

(* the offsets in effect: an omitted start is 0, an omitted end is length *)
EffStart == IF last.s = Undef THEN 0 ELSE last.s
EffEnd == IF last.e = Undef THEN Len(PreData) ELSE last.e

Splice(kids, i, mid) == SubSeq(kids, 1, i - 1) \o mid \o SubSeq(kids, i + 1, Len(kids))

IsWrapperOf(n, w, data) ==
    /\ n[w].type = "elem" /\ n[w].tag = WrapperTag
    /\ Len(n[w].kids) = 1
    /\ n[n[w].kids[1]].type = "text"
    /\ n[n[w].kids[1]].data = data

(* w is a wrapper clone around the slice: one Text child with the slice,  *)
(* and no child at all when the slice is empty                            *)
WrapperHolds(n, w, data) ==
    IF data = <<>>
    THEN n[w].type = "elem" /\ n[w].tag = WrapperTag /\ n[w].kids = <<>>
    ELSE IsWrapperOf(n, w, data)

(* the children that stand where the wrapped leaf stood                   *)
Group == SubSeq(nodes[PreParent].kids, PrePos, PrePos + Len(nodes[PreParent].kids) - Len(PreKids))

(* the unwrap just invoked is the first one of the closure that the       *)
(* wrapTextNode call right before it returned, for offsets a <= b         *)
UndoneAtOnce ==
    /\ last.op = "unwrap" /\ last.direct
    /\ nodes[last.node].type = "text"
    /\ last.s # Undef /\ last.e # Undef /\ last.s <= last.e

(* C1: wrapTextNode(leaf, W, {a, b}) with 0 <= a <= b <= length followed   *)
(* by one invocation of the returned closure leaves the serialized tree   *)
(* as it was before the wrap, and the wrapper is out of the tree.         *)
C1_RoundTrip ==
    UndoneAtOnce =>
        /\ Serialize(nodes, Root) = undos[last.h].before
        /\ \A k \in DOMAIN undos[last.h].ws : nodes[undos[last.h].ws[k]].parent = Null

(* what C1 says holds of the slices that are not empty, a < b             *)
C1_NonEmptyRoundTrip ==
    (UndoneAtOnce /\ last.s < last.e) =>
        /\ last.err = NoErr
        /\ Serialize(nodes, Root) = undos[last.h].before
        /\ \A k \in DOMAIN undos[last.h].ws : nodes[undos[last.h].ws[k]].parent = Null

C1_Witness ==
    /\ UndoneAtOnce /\ 0 < last.s /\ last.s < last.e
    /\ Serialize(nodes, Root) = undos[last.h].before

(* the undo of a wrap of no character throws and leaves the wrapper       *)
C1_EmptySliceWitness ==
    /\ UndoneAtOnce /\ last.s = last.e /\ last.err = "TypeError"
    /\ nodes = Pre
    /\ nodes[undos[last.h].ws[1]].parent # Null

AllUndone == undos # <<>> /\ \A h \in DOMAIN undos : undos[h].calls >= 1

(* C2: once every returned closure has been invoked, the characters of    *)
(* the tree are those before the first wrap.                              *)
C2_AllUndoneKeepsText ==
    AllUndone => TextContent(nodes, Root) = TextContent(InitTree, Root)

(* C5: for 0 < a < b < length the leaf's place holds a leaf c[0..a), a    *)
(* wrapper clone whose only content is c[a..b), and a leaf c[b..length);  *)
(* the siblings before and after keep their places around the group.      *)
C5_PartialWrap ==
    (WrappedText /\ last.s # Undef /\ last.e # Undef
        /\ 0 < last.s /\ last.s < last.e /\ last.e < Len(PreData)) =>
        /\ Len(Group) = 3
        /\ nodes[PreParent].kids = Splice(PreKids, PrePos, Group)
        /\ nodes[Group[1]].type = "text"
        /\ nodes[Group[1]].data = SubSeq(PreData, 1, last.s)
        /\ IsWrapperOf(nodes, Group[2], SubSeq(PreData, last.s + 1, last.e))
        /\ nodes[Group[3]].type = "text"
        /\ nodes[Group[3]].data = SubSeq(PreData, last.e + 1, Len(PreData))

C5_Witness ==
    /\ WrappedText /\ last.s = 1 /\ last.e = 2 /\ PreData = <<"a", "b", "c">>
    /\ Len(Group) = 3 /\ nodes[Group[1]].data = <<"a">> /\ nodes[Group[3]].data = <<"c">>

FullWrap == WrappedText /\ EffStart = 0 /\ EffEnd = Len(PreData)

(* C6 as stated: after a full-leaf wrap the parent has as many children   *)
(* as before, the wrapper standing at the leaf's index.                   *)
C6_SameLength ==
    FullWrap =>
        /\ Len(nodes[PreParent].kids) = Len(PreKids)
        /\ IsWrapperOf(nodes, nodes[PreParent].kids[PrePos], PreData)

(* C6 amended: after any wrap the leaf's place holds three children, the  *)
(* original leaf with c[0..a), the wrapper with c[a..b) (without a child  *)
(* when a = b) and a new leaf with c[b..length); for a = 0 the first is   *)
(* an empty leaf, for b = length the last is, so a full-leaf wrap         *)
(* serializes to the one wrapper around the original content.             *)
C6_EmptyLeavesStay ==
    (WrappedText /\ EffStart <= EffEnd) =>
        /\ Len(Group) = 3
        /\ nodes[PreParent].kids = Splice(PreKids, PrePos, Group)
        /\ Group[1] = last.node
        /\ nodes[Group[1]].data = SubSeq(PreData, 1, EffStart)
        /\ WrapperHolds(nodes, Group[2], SubSeq(PreData, EffStart + 1, EffEnd))
        /\ nodes[Group[3]].type = "text"
        /\ nodes[Group[3]].data = SubSeq(PreData, EffEnd + 1, Len(PreData))
        /\ (FullWrap => SerializeKids(nodes, Group)
                          = <<"<span>">> \o PreData \o <<"</span>">>)

C6_Witness ==
    /\ FullWrap /\ PreData # <<>>
    /\ Len(nodes[PreParent].kids) = Len(PreKids) + 2
    /\ nodes[Group[1]].data = <<>> /\ nodes[Group[3]].data = <<>>

IsBlank(data) == \A k \in 1..Len(data) : data[k] = " "

(* C7: a leaf whose content is empty or only whitespace is wrapped like   *)
(* any other: a wrapper clone holding the slice stands at its place, and  *)
(* for the empty leaf that place serializes to one empty wrapper.         *)
C7_BlankLeafWrapped ==
    (WrappedText /\ IsBlank(PreData) /\ EffStart <= EffEnd) =>
        /\ Len(last.made) = 1
        /\ nodes[last.made[1]].parent = PreParent
        /\ last.made[1] \in {Group[k] : k \in 1..Len(Group)}
        /\ WrapperHolds(nodes, last.made[1], SubSeq(PreData, EffStart + 1, EffEnd))
        /\ (PreData = <<>> => SerializeKids(nodes, Group) = <<"<span>", "</span>">>)

C7_Witness ==
    /\ WrappedText /\ PreData = <<>>
    /\ Serialize(nodes, PreParent) = <<"<a>", "<span>", "</span>", "</a>">>

(* C8: wrapTextNode on a node that is not a Text node changes nothing,    *)
(* and neither does any invocation of the closure it returns.             *)
C8_NonTextNoOp ==
    /\ (last.op = "wrapTextNode" /\ Pre[last.node].type # "text") => nodes = Pre
    /\ (last.op = "unwrap" /\ nodes[last.node].type # "text") => nodes = Pre

C8_Witness ==
    /\ last.op = "unwrap" /\ nodes[last.node].type # "text"
    /\ undos[last.h].calls = 2 /\ nodes = Pre

RECURSIVE Keep(_, _)
(* the members of a sequence that lie in S, in their order                *)
Keep(q, S) ==
    IF q = <<>> THEN <<>>
    ELSE IF Head(q) \in S THEN <<Head(q)>> \o Keep(Tail(q), S)
    ELSE Keep(Tail(q), S)

(* C9: wrapping one leaf leaves every other node with its parent and its  *)
(* order among its siblings, every other leaf with its content, and the   *)
(* characters of the tree, read in document order, as they were.          *)
C9_Frame ==
    WrappedText =>
        /\ \A x \in DOMAIN Pre :
             /\ nodes[x].parent = Pre[x].parent
             /\ nodes[x].type = Pre[x].type
             /\ (x # last.node => nodes[x].data = Pre[x].data)
             /\ Keep(nodes[x].kids, DOMAIN Pre) = Pre[x].kids
        /\ TextContent(nodes, Root) = TextContent(Pre, Root)

C9_Witness ==
    /\ WrappedText /\ last.s = 1 /\ last.e = 2
    /\ Len(PreKids) = 3 /\ PrePos = 1
    /\ Len(nodes[PreParent].kids) = 5
    /\ TextContent(nodes, Root) = TextContent(Pre, Root)

(* --------------------------- the locator ------------------------------ *)

Located == last.op = "getTextNodesInRange"

NoExclusion == ~last.options.defined \/ last.options.tags = <<>>

Leaves(n) == {x \in Attached(n) : n[x].type = "text"}

Found == {last.found[i] : i \in DOMAIN last.found}

(* x has a proper ancestor whose tag is one of the options' tags          *)
HasExcludedAncestor(n, x, options) ==
    /\ options.defined
    /\ \E a \in DOMAIN n, k \in DOMAIN options.tags :
          /\ a # x /\ IsInclusiveAncestor(n, a, x)
          /\ n[a].type = "elem" /\ n[a].tag = ToLowerCase(options.tags[k])

(* C3: with no exclusion set, getTextNodesInRange returns exactly the     *)
(* text leaves of the tree that the range intersects, each once, in       *)
(* document order, empty leaves included.                                 *)
C3_SoundAndComplete ==
    (Located /\ NoExclusion) =>
        /\ Found = {x \in Leaves(nodes) : IntersectsNode(nodes, last.range, x)}
        /\ \A i, j \in DOMAIN last.found :
              i < j => Precedes(nodes, last.found[i], last.found[j])

C3_Witness ==
    /\ Located /\ NoExclusion
    /\ Len(last.found) >= 3
    /\ \E i \in DOMAIN last.found : nodes[last.found[i]].data = <<>>
    /\ Found # Leaves(nodes)

(* C4: no leaf with an ancestor, at any depth, whose tag is excluded is   *)
(* returned, and every other leaf the range intersects is.                *)
C4_ExclusionPropagates ==
    Located =>
        Found = {x \in Leaves(nodes) : /\ IntersectsNode(nodes, last.range, x)
                                       /\ ~HasExcludedAncestor(nodes, x, last.options)}

(* C4, what the code does: the same, except that a range that lies in one *)
(* Text node gets that node whatever its ancestors are                    *)
C4_ExceptLeafRoot ==
    Located =>
        Found = {x \in Leaves(nodes) :
                    /\ IntersectsNode(nodes, last.range, x)
                    /\ \/ ~HasExcludedAncestor(nodes, x, last.options)
                       \/ x = CommonAncestorContainer(nodes, last.range)}

C4_LeafRootWitness ==
    /\ Located
    /\ \E i \in DOMAIN last.found : HasExcludedAncestor(nodes, last.found[i], last.options)

(* ------------------- wrapRangeTextNodes, by its effect ---------------- *)

RangeWrapped == last.op \in {"wrapRangeTextNodes", "wrapSelectedTextNodes"}

(* the tree a wrapRangeTextNodes call left: the next one's, or the last   *)
PostOf(k) == IF k < Len(last.steps) THEN last.steps[k + 1].pre ELSE nodes

(* x is followed by an element that was not there before: its wrapper     *)
WrappedBy(pre, post, x) ==
    /\ post[x].parent # Null
    /\ Only({/\ w # Null /\ w \notin DOMAIN pre
             /\ post[w].type = "elem" /\ post[w].tag = WrapperTag
             : w \in {NextSibling(post, x)}})

Untouched(pre, post, x) ==
    /\ post[x].data = pre[x].data
    /\ post[x].parent = pre[x].parent
    /\ ~WrappedBy(pre, post, x)

(* the located leaves that shouldWrapNode lets through                    *)
Accepted(pre, rg, options, pred) ==
    Only({{found[i] : i \in {j \in DOMAIN found : shouldWrapNode(pre, found[j], pred)}}
          : found \in {getTextNodesInRange(pre, rg, options)}})

(* C10: every leaf that has an excluded ancestor, or that shouldWrapNode  *)
(* refuses, is left untouched by the wrap: same parent, same content, no  *)
(* wrapper on it.                                                         *)
C10_ExcludedOrRefusedUntouched ==
    RangeWrapped =>
        \A k \in DOMAIN last.steps :
        \A x \in Leaves(last.steps[k].pre) :
           (\/ HasExcludedAncestor(last.steps[k].pre, x, last.options)
            \/ ~shouldWrapNode(last.steps[k].pre, x, last.pred))
           => Untouched(last.steps[k].pre, PostOf(k), x)

(* C10, what the code does: the leaves wrapped for a range are those the  *)
(* locator returns for it that shouldWrapNode lets through, one wrapper   *)
(* each; every other leaf is untouched                                    *)
C10_LocatedAndAccepted ==
    RangeWrapped =>
        \A k \in DOMAIN last.steps :
        Only({/\ \A x \in Leaves(pre) :
                    IF x \in acc THEN WrappedBy(pre, post, x) ELSE Untouched(pre, post, x)
              /\ Len(last.steps[k].made) = Cardinality(acc)
              : pre \in {last.steps[k].pre}, post \in {PostOf(k)},
                acc \in {Accepted(last.steps[k].pre, last.steps[k].range, last.options,
                                  last.pred)}})

(* C10, the undo: invoked right after the call, it moves no leaf that was *)
(* there before the call and changes none                                 *)
C10_UndoLeavesTheRest ==
    (last.op = "unwrap" /\ last.direct /\ undos[last.h].node = Null) =>
        \A x \in Leaves(undos[last.h].pre) :
            /\ nodes[x].data = Pre[x].data
            /\ nodes[x].parent = Pre[x].parent

(* a range in one Text node under an excluded tag: the node is wrapped    *)
C10_LeafRootWitness ==
    /\ RangeWrapped /\ Len(last.steps) = 1 /\ Len(last.made) = 1
    /\ \E x \in Leaves(Pre) :
          /\ HasExcludedAncestor(Pre, x, last.options)
          /\ WrappedBy(Pre, nodes, x)
          /\ Pre[x].data # <<>> /\ nodes[x].data = <<>>

(* ------------------------ the selection's undo ------------------------ *)

(* the last call was the first invocation of the undo of the              *)
(* wrapSelectedTextNodes call just before it                              *)
SelectionUndone ==
    /\ last.op = "unwrap" /\ last.direct
    /\ undos[last.h].op = "wrapSelectedTextNodes"

(* what C11 says of a selection holds of a selection of one range whose   *)
(* undo throws nothing                                                    *)
C11_OneRangeRoundTrip ==
    (SelectionUndone /\ undos[last.h].ranges <= 1 /\ last.err = NoErr) =>
        /\ Serialize(nodes, Root) = undos[last.h].before
        /\ \A k \in DOMAIN undos[last.h].ws : nodes[undos[last.h].ws[k]].parent = Null

(* C11: wrapSelectedTextNodes and then its undo give back the serialized  *)
(* tree, and every wrapper the call made is out of the tree.              *)
C11_SelectionRoundTrip ==
    SelectionUndone =>
        /\ last.err = NoErr
        /\ Serialize(nodes, Root) = undos[last.h].before
        /\ \A k \in DOMAIN undos[last.h].ws : nodes[undos[last.h].ws[k]].parent = Null

(* ----------------------- the undo, invoked again ---------------------- *)

(* the last call invoked, not for the first time, the closure that        *)
(* wrapTextNode returned for a Text node, and an invocation before it had *)
(* detached the wrapper                                                   *)
UndoneAgain ==
    /\ last.op = "unwrap"
    /\ undos[last.h].op = "wrapTextNode"
    /\ undos[last.h].ws # <<Null>>
    /\ undos[last.h].calls >= 2
    /\ Pre[undos[last.h].ws[1]].parent = Null

(* C12: a second invocation of wrapTextNode's undo throws nothing and     *)
(* leaves every node as the call found it.                                *)
C12_SecondUndoNoOp ==
    UndoneAgain => (last.err = NoErr /\ nodes = Pre)

C12_Witness ==
    /\ UndoneAgain /\ last.err = NoErr /\ nodes = Pre
    /\ nodes[undos[last.h].ws[1]].parent = Null
    /\ Serialize(nodes, Root) = undos[last.h].before

(* ---------------------- the selection's text nodes -------------------- *)

SelectionLocated == last.op = "getSelectedTextNodes"

(* what the locator returns for range number i of the selection           *)
Part(i) == getTextNodesInRange(nodes, last.ranges[i], last.options)

RECURSIVE LenBefore(_)
(* where the text nodes of range number i begin in the result             *)
LenBefore(i) == IF i = 1 THEN 0 ELSE LenBefore(i - 1) + Len(Part(i - 1))

(* how often x is in sequence f                                           *)
Occurrences(f, x) == Cardinality({i \in DOMAIN f : f[i] = x})

(* C13: the result is the locator's results for range 0, 1, ... laid end  *)
(* to end; a leaf that k ranges intersect is there k times; no range, no  *)
(* text node.                                                             *)
C13_Concatenation ==
    SelectionLocated =>
        /\ Len(last.found) = LenBefore(Len(last.ranges) + 1)
        /\ \A i \in DOMAIN last.ranges : \A k \in 1..Len(Part(i)) :
              last.found[LenBefore(i) + k] = Part(i)[k]
        /\ ~last.options.defined =>
              \A x \in Leaves(nodes) :
                 Occurrences(last.found, x) =
                    Cardinality({i \in DOMAIN last.ranges :
                                    IntersectsNode(nodes, last.ranges[i], x)})
        /\ last.ranges = <<>> => last.found = <<>>

C13_Witness ==
    /\ SelectionLocated /\ Len(last.ranges) = 2
    /\ \E x \in Leaves(nodes) : Occurrences(last.found, x) = 2
    /\ \E i \in DOMAIN last.found : i > 1 /\ Precedes(nodes, last.found[i], last.found[1])

(* ----------------------------- the finder ----------------------------- *)

Searched == last.op = "getRangesOfText"

(* the leaves the call probed, in the order it probed them                *)
Probed == getTextNodes(nodes, last.node, NoOptions)

(* the leaf's own content holds the pattern                               *)
HasMatch(x) == MatchesFrom(nodes[x].data, regex.source, 0) # {}

FirstMatch(x) == Min(MatchesFrom(nodes[x].data, regex.source, 0))

(* C14: every probed leaf whose own content holds the pattern has a span  *)
(* at the first place the pattern occurs in it, with or without the g     *)
(* flag.                                                                  *)
C14_EveryLeafFirstMatch ==
    Searched =>
        \A k \in DOMAIN Probed :
           HasMatch(Probed[k]) =>
              \E i \in DOMAIN last.found :
                 /\ last.found[i].sc = Probed[k]
                 /\ last.found[i].so = FirstMatch(Probed[k])

(* what C14 says holds of patterns without the g flag                     *)
C14_WithoutGlobalFlag ==
    (Searched /\ ~regex.global) =>
        \A k \in DOMAIN Probed :
           HasMatch(Probed[k]) =>
              \E i \in DOMAIN last.found :
                 /\ last.found[i].sc = Probed[k]
                 /\ last.found[i].so = FirstMatch(Probed[k])

C14_SkippedLeafWitness ==
    /\ Searched /\ regex.global /\ last.calls = 1
    /\ \E k \in DOMAIN Probed :
          /\ HasMatch(Probed[k])
          /\ \A i \in DOMAIN last.found : last.found[i].sc # Probed[k]

CrossLeafCase ==
    /\ Searched /\ last.pre = CrossTree /\ last.node = Root
    /\ regex.source = <<"a", "b", "a">>

RECURSIVE TextBetween(_, _, _)
(* the characters of the leaves that lie in a range from text to text     *)
TextBetween(n, rg, leaves) ==
    IF leaves = <<>> THEN <<>>
    ELSE Only({(IF x = rg.sc /\ x = rg.ec THEN SubSeq(n[x].data, rg.so + 1, rg.eo)
                ELSE IF x = rg.sc THEN SubSeq(n[x].data, rg.so + 1, Len(n[x].data))
                ELSE IF x = rg.ec THEN SubSeq(n[x].data, 1, rg.eo)
                ELSE IF Precedes(n, rg.sc, x) /\ Precedes(n, x, rg.ec) THEN n[x].data
                ELSE <<>>) \o TextBetween(n, rg, Tail(leaves))
               : x \in {Head(leaves)}})

(* Range.toString()                                                       *)
RangeToString(n, rg) == TextBetween(n, rg, getTextNodes(n, Root, NoOptions))

(* C17: searched for /aba/g, the three leaves give one span, which reads  *)
(* "aba" and starts in the first leaf at offset 1.                        *)
C17_CrossLeafFound ==
    (CrossLeafCase /\ regex.global) =>
        /\ Len(last.found) = 1
        /\ last.found[1].sc = 2 /\ last.found[1].so = 1
        /\ RangeToString(nodes, last.found[1]) = <<"a", "b", "a">>

(* C18: a call with the arguments of the call before it, the tree being   *)
(* the same, returns what that call returned.                             *)
C18_SameCallSameResult ==
    (Searched /\ last.calls >= 2 /\ last.node = last.prevNode) =>
        last.found = last.prevFound

(* what C18 says holds of patterns without the g flag                     *)
C18_WithoutGlobalFlag ==
    (Searched /\ ~regex.global /\ last.calls >= 2 /\ last.node = last.prevNode) =>
        last.found = last.prevFound

C18_SecondCallWitness ==
    /\ Searched /\ regex.global /\ last.calls = 2 /\ last.node = last.prevNode
    /\ last.prevFound # <<>> /\ last.found = <<>>
Collapsed(rg) == rg.sc = rg.ec /\ rg.so = rg.eo

(* the range ends at offset 0 of the leaf or starts at its end offset     *)
TouchedInside(n, rg, x) ==
    \/ rg.ec = x /\ rg.eo = 0
    \/ rg.sc = x /\ rg.so = NodeLength(n, x)

(* the range ends where the leaf starts in its parent, or starts where    *)
(* the leaf ends in its parent                                            *)
TouchedOutside(n, rg, x) ==
    /\ n[x].parent # Null
    /\ \/ rg.ec = n[x].parent /\ rg.eo = Index(n, x)
       \/ rg.sc = n[x].parent /\ rg.so = Index(n, x) + 1

(* C19: a collapsed range returns no text node, and a leaf that the range *)
(* touches at its offset 0 or at its end offset is not returned.          *)
C19_ZeroWidthNotReturned ==
    (Located /\ NoExclusion) =>
        /\ Collapsed(last.range) => last.found = <<>>
        /\ \A x \in Leaves(nodes) : TouchedInside(nodes, last.range, x) => x \notin Found

(* C19 as the code has it: a collapsed range in a text leaf returns that  *)
(* leaf and a collapsed range in an element returns nothing; a leaf that  *)
(* holds an end of the range is returned, also when the range only        *)
(* touches it; a leaf that the range touches from its parent is not.      *)
C19_TouchedLeaves ==
    (Located /\ NoExclusion) =>
        /\ (Collapsed(last.range) /\ nodes[last.range.sc].type = "text")
               => last.found = <<last.range.sc>>
        /\ (Collapsed(last.range) /\ nodes[last.range.sc].type = "elem")
               => last.found = <<>>
        /\ \A x \in Leaves(nodes) :
              /\ (last.range.sc = x \/ last.range.ec = x) => x \in Found
              /\ TouchedOutside(nodes, last.range, x) => x \notin Found

C19_Witness ==
    /\ Located /\ NoExclusion /\ ~Collapsed(last.range)
    /\ \E x \in Found, y \in Leaves(nodes) \ Found :
          /\ TouchedInside(nodes, last.range, x)
          /\ nodes[x].data # <<>>
          /\ TouchedOutside(nodes, last.range, y)

C19_CollapsedWitness ==
    /\ Located /\ NoExclusion /\ Collapsed(last.range)
    /\ nodes[last.range.sc].type = "text"
    /\ 0 < last.range.so /\ last.range.so < NodeLength(nodes, last.range.sc)
    /\ last.found = <<last.range.sc>>

(* the range starts at the end offset of leaf x and ends before every     *)
(* leaf behind x                                                          *)
EndsBeforeNextLeaf(n, rg, x) ==
    /\ rg.sc = x /\ rg.so = NodeLength(n, x)
    /\ \A y \in Leaves(n) :
          (y # x /\ Precedes(n, x, y)) => Position(n, rg.ec, rg.eo, y, 0) = -1

(* C20: a range from the end offset of a leaf L to a point before the     *)
(* next leaf returns exactly <<L>>; in <p>text1<a><strong>text2</strong>  *)
(* text3</a></p> the range from the end of text1 to offset 0 of <a>       *)
(* returns <<text1>>.                                                     *)
C20_EndOfLeaf ==
    (Located /\ NoExclusion) =>
        \A x \in Leaves(nodes) :
            EndsBeforeNextLeaf(nodes, last.range, x) => last.found = <<x>>

C20_Witness ==
    /\ Located /\ NoExclusion /\ nodes = TestTree
    /\ last.range = MkRange(<<2, Len(TestTree[2].data)>>, <<3, 0>>)
    /\ last.found = <<2>>

(* ------------------------- offsets out of order ----------------------- *)

Given(o) == o # Undef

(* both offsets were passed, within the node, the start behind the end    *)
OutOfOrder ==
    /\ CalledOnText /\ Given(last.s) /\ Given(last.e)
    /\ last.e < last.s /\ last.s <= Len(PreData)

(* C21: wrapTextNode with startOffset > endOffset fails with an error and *)
(* leaves the tree as it was.                                             *)
C21_OutOfOrderRejected ==
    OutOfOrder => (last.err # NoErr /\ nodes = Pre)

(* C21, what the code does: setEnd moves the start to the end offset, and *)
(* a wrapper without a child is put into the leaf at endOffset            *)
C21_OutOfOrderWrapsNothing ==
    OutOfOrder =>
        /\ last.err = NoErr
        /\ Len(Group) = 3
        /\ nodes[PreParent].kids = Splice(PreKids, PrePos, Group)
        /\ Group[1] = last.node
        /\ nodes[Group[1]].data = SubSeq(PreData, 1, last.e)
        /\ WrapperHolds(nodes, Group[2], <<>>)
        /\ nodes[Group[3]].data = SubSeq(PreData, last.e + 1, Len(PreData))

C21_Witness ==
    /\ OutOfOrder /\ last.s = 2 /\ last.e = 1 /\ last.err = NoErr
    /\ SerializeKids(nodes, Group) = <<"a", "<span>", "</span>", "b", "c">>

(* ------------------------- offsets out of range ----------------------- *)

(* an offset that was passed is greater than the leaf's length            *)
OutOfRange ==
    /\ CalledOnText
    /\ \/ Given(last.s) /\ last.s > Len(PreData)
       \/ Given(last.e) /\ last.e > Len(PreData)

Clamp(o, len) == IF Given(o) /\ o > len THEN len ELSE o

(* C22: an offset greater than the length is taken for the length: the    *)
(* wrap succeeds with the result the length would have given.             *)
C22_Clamped ==
    OutOfRange =>
        /\ last.err = NoErr
        /\ nodes = wrapTextNode(Dom(Pre, <<>>), last.node, Clamp(last.s, Len(PreData)),
                                Clamp(last.e, Len(PreData))).d.n

(* C22 as the code has it: an offset greater than the length makes the    *)
(* call throw IndexSizeError before anything is changed; an omitted       *)
(* startOffset is 0 and an omitted endOffset is the length.               *)
C22_OutOfRangeThrows ==
    /\ OutOfRange => (last.err = "IndexSizeError" /\ nodes = Pre /\ last.made = <<>>)
    /\ (CalledOnText /\ ~OutOfRange) =>
          /\ last.err = NoErr
          /\ nodes = wrapTextNode(Dom(Pre, <<>>), last.node, EffStart, EffEnd).d.n

C22_Witness ==
    /\ OutOfRange /\ last.s = 1 /\ last.e = Len(PreData) + 1
    /\ last.err = "IndexSizeError" /\ nodes = Pre

C22_DefaultsWitness ==
    /\ WrappedText /\ ~Given(last.s) /\ ~Given(last.e) /\ PreData = <<"d", "e">>
    /\ SerializeKids(nodes, Group) = <<"<span>", "d", "e", "</span>">>

(* ------------------- the child list after the undo -------------------- *)

(* the last call was the first invocation of the undo that the            *)
(* wrapTextNode call right before it returned for a Text node             *)
TextUndone ==
    /\ last.op = "unwrap" /\ last.direct
    /\ undos[last.h].op = "wrapTextNode"
    /\ undos[last.h].ws # <<Null>>

(* the tree before that wrap, the leaf, its place, and the slice wrapped  *)
Before == undos[last.h].pre
BeforeData == Before[last.node].data
BeforeParent == Before[last.node].parent
BeforeKids == Before[BeforeParent].kids
BeforePos == IndexIn(BeforeKids, last.node)
SliceStart == IF Given(last.s) THEN last.s ELSE 0
SliceEnd == IF Given(last.e) THEN last.e ELSE Len(BeforeData)

(* the children that now stand where the leaf stood before the wrap       *)
After ==
    SubSeq(nodes[BeforeParent].kids, BeforePos,
           BeforePos + Len(nodes[BeforeParent].kids) - Len(BeforeKids))

(* C23: after wrapTextNode and its undo the parent has as many children   *)
(* as before the wrap, with the same contents at the same indices.        *)
C23_SameArrangement ==
    (TextUndone /\ SliceStart <= SliceEnd) =>
        /\ Len(nodes[BeforeParent].kids) = Len(BeforeKids)
        /\ \A k \in DOMAIN BeforeKids :
              /\ nodes[nodes[BeforeParent].kids[k]].type = Before[BeforeKids[k]].type
              /\ nodes[nodes[BeforeParent].kids[k]].data = Before[BeforeKids[k]].data

(* C23 as the code has it: after the undo of a wrap of c[a..b), a < b,    *)
(* three leaves stand where the leaf stood: the leaf itself with c[0..a), *)
(* the clone with c[a..b) and the split-off leaf with c[b..length), empty *)
(* ones included; the other children are where they were.  The undo of a  *)
(* wrap of no character throws and changes nothing.                       *)
C23_FragmentsStay ==
    /\ (TextUndone /\ SliceStart < SliceEnd) =>
          /\ last.err = NoErr
          /\ Len(After) = 3
          /\ nodes[BeforeParent].kids = Splice(BeforeKids, BeforePos, After)
          /\ After[1] = last.node
          /\ \A k \in 1..3 : nodes[After[k]].type = "text" /\ nodes[After[k]].kids = <<>>
          /\ nodes[After[1]].data = SubSeq(BeforeData, 1, SliceStart)
          /\ nodes[After[2]].data = SubSeq(BeforeData, SliceStart + 1, SliceEnd)
          /\ nodes[After[3]].data = SubSeq(BeforeData, SliceEnd + 1, Len(BeforeData))
    /\ (TextUndone /\ SliceStart >= SliceEnd) =>
          (last.err = "TypeError" /\ nodes = Pre)

C23_Witness ==
    /\ TextUndone /\ last.s = 1 /\ last.e = 2 /\ BeforeData = <<"a", "b", "c">>
    /\ Len(After) = 3
    /\ nodes[After[1]].data = <<"a">> /\ nodes[After[2]].data = <<"b">>
    /\ nodes[After[3]].data = <<"c">>

(* ----------------------- undos in either order ------------------------ *)

(* two wraps of Text nodes were made and then undos only; the first was   *)
(* not of an empty slice and the second was not inside its wrapper        *)
TwoDisjointWraps ==
    /\ Len(undos) = 2 /\ last.op = "unwrap"
    /\ undos[1].op = "wrapTextNode" /\ undos[2].op = "wrapTextNode"
    /\ undos[1].ws # <<Null>> /\ undos[2].ws # <<Null>>
    /\ undos[2].pre[undos[1].ws[1]].parent # Null
    /\ undos[2].pre[undos[1].ws[1]].kids # <<>>
    /\ undos[2].pre[undos[2].node].parent # undos[1].ws[1]

Other(h) == 3 - h

(* the first of the two undos has just been invoked; the second wrap was  *)
(* not of an empty slice                                                  *)
FirstUndone ==
    /\ TwoDisjointWraps
    /\ undos[last.h].calls = 1 /\ undos[Other(last.h)].calls = 0
    /\ Pre[undos[2].ws[1]].kids # <<>>

(* both undos have been invoked once, the second just now; the second     *)
(* wrap was not of an empty slice (its wrapper had a child, or has        *)
(* already been taken out, which the undo of an empty wrapper cannot do)  *)
BothUndone ==
    /\ TwoDisjointWraps
    /\ undos[1].calls = 1 /\ undos[2].calls = 1
    /\ IF last.h = 2 THEN Pre[undos[2].ws[1]].kids # <<>>
       ELSE Pre[undos[2].ws[1]].parent = Null

C24_SecondOrderWitness ==
    /\ BothUndone /\ last.h = 2
    /\ undos[1].node = undos[2].node

(* ------------------------ the offsets per leaf ------------------------ *)

(* the last call was wrapRangeTextNodes, and it returned                  *)
RangeCalled == last.op = "wrapRangeTextNodes" /\ last.err = NoErr

TheRange == last.steps[1].range

(* the slice of leaf x that the range asks for                            *)
StartIn(x) == IF x = TheRange.sc THEN TheRange.so ELSE 0
EndIn(x) == IF x = TheRange.ec THEN TheRange.eo ELSE Len(Pre[x].data)

(* leaf x was cut to c[0..s), and a new wrapper around c[s..e) and a new  *)
(* leaf with c[e..length) follow it                                       *)
WrappedOver(x, s, e) ==
    /\ nodes[x].data = SubSeq(Pre[x].data, 1, s)
    /\ Only({/\ w # Null /\ w \notin DOMAIN Pre
             /\ nodes[w].parent = nodes[x].parent
             /\ WrapperHolds(nodes, w, SubSeq(Pre[x].data, s + 1, e))
             /\ Only({/\ rest # Null /\ rest \notin DOMAIN Pre
                      /\ nodes[rest].type = "text"
                      /\ nodes[rest].data = SubSeq(Pre[x].data, e + 1, Len(Pre[x].data))
                      : rest \in {NextSibling(nodes, w)}})
             : w \in {NextSibling(nodes, x)}})

RECURSIVE ConcatText(_, _)
(* the characters in the elements ws, one after the other                 *)
ConcatText(n, ws) ==
    IF ws = <<>> THEN <<>> ELSE TextContent(n, Head(ws)) \o ConcatText(n, Tail(ws))

AllLeaves(n) == getTextNodes(n, Root, NoOptions)

NotExcluded(n, options) ==
    SelectSeq(AllLeaves(n), LAMBDA x : ~HasExcludedAncestor(n, x, options))

TextToText == Pre[TheRange.sc].type = "text" /\ Pre[TheRange.ec].type = "text"

(* C25, the offsets: every located leaf that shouldWrapNode lets through  *)
(* is wrapped over [s, e), s the range's start offset in the start node   *)
(* and 0 elsewhere, e the range's end offset in the end node and the      *)
(* length elsewhere.                                                      *)
C25_PerLeafOffsets ==
    RangeCalled =>
        \A x \in Accepted(Pre, TheRange, last.options, last.pred) :
            /\ StartIn(x) <= EndIn(x)
            /\ WrappedOver(x, StartIn(x), EndIn(x))

(* C25, the characters: after a call for a range from text to text the    *)
(* characters in the wrappers are those of the leaves without an excluded *)
(* ancestor that lie between the range's start and its end.               *)
C25_WrappedCharacters ==
    (RangeCalled /\ TextToText /\ last.pred = "undefined") =>
        ConcatText(nodes, last.made) = TextBetween(Pre, TheRange, NotExcluded(Pre, last.options))

(* what C25 says of the characters holds of the leaves the locator        *)
(* returns                                                                *)
C25_LocatedCharacters ==
    (RangeCalled /\ TextToText /\ last.pred = "undefined") =>
        ConcatText(nodes, last.made)
            = TextBetween(Pre, TheRange, getTextNodesInRange(Pre, TheRange, last.options))

(* a range from the middle of one leaf over a whole leaf to the middle of *)
(* another                                                                *)
C25_Witness ==
    /\ RangeCalled /\ TextToText /\ Len(last.made) = 3
    /\ TheRange.sc # TheRange.ec
    /\ 0 < TheRange.so /\ TheRange.so < Len(Pre[TheRange.sc].data)
    /\ 0 < TheRange.eo /\ TheRange.eo < Len(Pre[TheRange.ec].data)
    /\ ConcatText(nodes, last.made) = <<"b", "c", "d">>

(* a range inside a leaf under an excluded tag: its characters end up in  *)
(* a wrapper                                                              *)
C25_ExcludedWitness ==
    /\ RangeCalled /\ TextToText /\ last.pred = "undefined"
    /\ NotExcluded(Pre, last.options) # AllLeaves(Pre)
    /\ HasExcludedAncestor(Pre, TheRange.sc, last.options)
    /\ ConcatText(nodes, last.made) # <<>>

(* -------------------- locating before wrapping ------------------------ *)

(* C26: in one wrapRangeTextNodes or wrapSelectedTextNodes call the text  *)
(* nodes of every range are located on the tree as the call found it,     *)
(* before the call's first wrap.                                          *)
C26_LocatedBeforeWrapping ==
    RangeWrapped => \A k \in DOMAIN last.steps : last.steps[k].pre = Pre

(* what C26 says holds of wrapRangeTextNodes and of the first range of a  *)
(* selection: what is wrapped is what the locator returns on the tree as  *)
(* the call found it                                                      *)
C26_FirstRangeLocatedFirst ==
    (RangeWrapped /\ last.steps # <<>>) =>
        /\ last.steps[1].pre = Pre
        /\ Len(last.steps[1].made)
              = Cardinality(Accepted(Pre, last.steps[1].range, last.options, last.pred))

(* the second range of a selection was located after the first was        *)
(* wrapped: a wrapper made for it stands inside a wrapper made for the    *)
(* first                                                                  *)
C26_Witness ==
    /\ last.op = "wrapSelectedTextNodes" /\ Len(last.steps) = 2
    /\ last.steps[2].pre # Pre
    /\ \E i \in DOMAIN last.steps[2].made, j \in DOMAIN last.steps[1].made :
          nodes[last.steps[2].made[i]].parent = last.steps[1].made[j]

(* ---------------------- the order of the undos ----------------------- *)

(* the last call invoked the undo of a range or selection wrap            *)
RangeUndone ==
    /\ last.op = "unwrap"
    /\ undos[last.h].op \in {"wrapRangeTextNodes", "wrapSelectedTextNodes"}

(* the located leaves that shouldWrapNode lets through, in the locator's  *)
(* order                                                                  *)
AcceptedSeq(pre, rg, options, pred) ==
    SelectSeq(getTextNodesInRange(pre, rg, options), LAMBDA x : shouldWrapNode(pre, x, pred))

RECURSIVE MadeFrom(_)
(* the wrappers of range k and of those behind it, range by range         *)
MadeFrom(k) ==
    IF k > Len(last.steps) THEN <<>> ELSE last.steps[k].made \o MadeFrom(k + 1)

(* the callbacks are collected wrap by wrap, range by range: wrapper      *)
(* number i of a range follows the i-th leaf that was located and let     *)
(* through, and a leaf that was refused has none                          *)
CollectedInOrder ==
    (RangeWrapped /\ last.err = NoErr) =>
        /\ last.made = MadeFrom(1)
        /\ \A k \in DOMAIN last.steps :
              Only({/\ Len(last.steps[k].made) = Len(acc)
                    /\ \A i \in DOMAIN acc :
                          NextSibling(PostOf(k), acc[i]) = last.steps[k].made[i]
                    : acc \in {AcceptedSeq(last.steps[k].pre, last.steps[k].range,
                                           last.options, last.pred)}})

(* C27: the undo of a range or selection wrap invokes every collected     *)
(* per-leaf undo once, in the order in which the leaves were wrapped,     *)
(* range after range; a refused leaf has no undo.                         *)
C27_EachInvokedInOrder ==
    /\ CollectedInOrder
    /\ RangeUndone => last.invoked = undos[last.h].ws

(* C27 as far as it holds: the per-leaf undos are invoked in the order of *)
(* the wraps up to the first that throws, all of them when none does      *)
C27_InOrderUntilThrow ==
    /\ CollectedInOrder
    /\ RangeUndone =>
          /\ Len(last.invoked) <= Len(undos[last.h].ws)
          /\ last.invoked = SubSeq(undos[last.h].ws, 1, Len(last.invoked))
          /\ last.err = NoErr => last.invoked = undos[last.h].ws

(* an undo in the middle threw: the ones behind it were not invoked       *)
C27_Witness ==
    /\ RangeUndone /\ last.err = "TypeError"
    /\ Len(undos[last.h].ws) = 4 /\ Len(last.invoked) = 2
    /\ nodes[undos[last.h].ws[3]].kids # <<>>
    /\ nodes[undos[last.h].ws[3]].parent # Null

(* ------------------------ a root that is a leaf ----------------------- *)

Walked == last.op = "getTextNodes"

TheAncestor == CommonAncestorContainer(nodes, last.range)

C28_RangeWitness ==
    /\ Located /\ nodes[TheAncestor].type = "text"
    /\ HasExcludedAncestor(nodes, TheAncestor, last.options)
    /\ last.range.so < last.range.eo
    /\ last.found = <<TheAncestor>>

(* ------------------- exclusion above the root ------------------------- *)

(* the leaves below root, in document order                               *)
LeavesBelow(n, root) == WalkKids(n, n[root].kids, NoOptions)

(* C30: for a root that is an element, getTextNodes returns the leaves    *)
(* below it that have no excluded ancestor anywhere up to the top of the  *)
(* tree, the root and the elements above it included; so                  *)
(* getTextNodesInRange returns nothing for a common ancestor that is, or  *)
(* lies in, an excluded element, where for a common ancestor that is a    *)
(* leaf it returns the leaf.                                              *)
C30_WholeAncestorChain ==
    /\ (Walked /\ nodes[last.node].type = "elem") =>
          last.found = SelectSeq(LeavesBelow(nodes, last.node),
                                 LAMBDA x : ~HasExcludedAncestor(nodes, x, last.options))
    /\ (Located /\ nodes[TheAncestor].type = "elem"
          /\ last.options.defined
          /\ \E k \in DOMAIN last.options.tags :
                Closest(nodes, TheAncestor, ToLowerCase(last.options.tags[k])) # Null)
        => last.found = <<>>

(* the root lies in an excluded element and has leaves below it: none is  *)
(* returned                                                               *)
C30_Witness ==
    /\ Walked /\ nodes[last.node].type = "elem"
    /\ LeavesBelow(nodes, last.node) # <<>>
    /\ last.options.defined
    /\ \E k \in DOMAIN last.options.tags :
          /\ nodes[last.node].tag # ToLowerCase(last.options.tags[k])
          /\ Closest(nodes, last.node, ToLowerCase(last.options.tags[k])) # Null
    /\ last.found = <<>>

(* a range over the content of an element inside an excluded element      *)
C30_RangeWitness ==
    /\ Located /\ nodes[TheAncestor].type = "elem" /\ TheAncestor # Root
    /\ \E x \in Leaves(nodes) :
          /\ IntersectsNode(nodes, last.range, x) /\ nodes[x].data # <<>>
          /\ IsInclusiveAncestor(nodes, TheAncestor, x)
          /\ nodes[x].parent # TheAncestor
    /\ last.options = Options(<<"P">>)
    /\ last.found = <<>>

(* ------------------------ every undo succeeds ------------------------- *)

(* the last call invoked, for the first time, the undo that the wrapping  *)
(* call right before it returned                                          *)
JustUndone == last.op = "unwrap" /\ last.direct

(* the wrappers that the wrapping call made                               *)
Wrappers == {undos[last.h].ws[k] : k \in DOMAIN undos[last.h].ws} \ {Null}

(* C29: the undo of any wrap throws nothing, and after it no wrapper that *)
(* the wrapping call made is in the tree.                                 *)
C29_UndoSucceeds ==
    JustUndone =>
        /\ last.err = NoErr
        /\ \A w \in Wrappers : w \notin Attached(nodes)

(* what C29 says holds when every wrapper has a child, that is when no    *)
(* wrap was over an empty slice                                           *)
C29_NonEmptyUndone ==
    (JustUndone /\ \A w \in Wrappers : Pre[w].kids # <<>>) =>
        /\ last.err = NoErr
        /\ \A w \in Wrappers : w \notin Attached(nodes)

(* the undo of the first leaf, which the range only touched, threw: the   *)
(* wrappers behind it are still in the tree, one of them with its text    *)
C29_Witness ==
    /\ JustUndone /\ last.err = "TypeError"
    /\ Len(undos[last.h].ws) >= 2 /\ Len(last.invoked) = 1
    /\ nodes = Pre
    /\ \E w \in Wrappers : w \in Attached(nodes) /\ TextContent(nodes, w) # <<>>

====
